---- MODULE Spec2Model ----
(***************************************************************************)
(* Model of the MAX7219 driver (src/src/lib.rs): the controller, which     *)
(* caches the decode mode, the two-byte register writes it sends over the  *)
(* SPI bus, and the byte encoders the writes carry.                        *)
(*                                                                         *)
(* A method of the driver is an operator from the controller record to the *)
(* controller record: m.decode_mode is the struct field, m.chip the        *)
(* control registers of the chip as the accepted bus writes left them,     *)
(* m.log the transfers issued so far in the current call, m.seen the decode *)
(* mode the chip was in as each was issued, and m.ret the                  *)
(* Result of the last awaited call.  The `?` after an await is the test    *)
(* `IF m.ret # Ok THEN m` that returns the failed record at once.          *)
(***************************************************************************)
EXTENDS Integers, Sequences, FiniteSets

VARIABLES
    constructed,  \* TRUE once new() has returned Ok(max7219)
    decode_mode,  \* Max7219.decode_mode, the cached decode mode
    chip,         \* DecodeMode and Power registers of the chip: last accepted data
    call,         \* the last call: its name, arguments, state before it, bus fault
    log,          \* the [address, data] transfers the last call issued, in order
    seen,         \* the chip's DecodeMode register when each of them was issued
    ret           \* what the last call returned: Ok or the bus error

vars == <<constructed, decode_mode, chip, call, log, seen, ret>>

(***************************************************************************)
(* Constants and enumerations of the driver.                               *)
(***************************************************************************)
MAX_DIGITS == 8

Noop == \h00
Digit0 == \h01
Digit7 == \h08
DecodeMode == \h09
Intensity == \h0A
ScanLimit == \h0B
Power == \h0C
DisplayTest == \h0F

NoDecode == \h00
CodeBDigit0 == \h01
CodeBDigits3_0 == \h0F
CodeBDigits7_0 == \hFF

DecodeModes == {NoDecode, CodeBDigit0, CodeBDigits3_0, CodeBDigits7_0}

\* The registers of the chip whose content the model keeps: the decode mode,
\* which the controller caches, and the power state, which init() leaves.
\* What the other registers receive is in the log of the call.
ControlRegisters == {DecodeMode, Power}

Ok == "Ok"

(***************************************************************************)
(* Bounds of the model: the inputs the calls are tried on.                 *)
(***************************************************************************)
\* The bus may fail the k-th transfer of a call, k in 1..BusFailMax (0: none).
\* init() issues twelve transfers, the longest call.
BusFailMax == 12

\* The errors the transport can raise (SPI::Error values).
Errors == {"BusErrA", "BusErrB"}

\* "12345678" and " -EhLp.K"
Strings ==
    { <<49, 50, 51, 52, 53, 54, 55, 56>>,
      <<32, 45, 69, 104, 76, 112, 46, 75>> }

Raws ==
    { <<\h01, \h02, \h04, \h08, \h10, \h20, \h40, \h80>>,
      <<\hFF, \h00, \h7E, \h30, \h6D, \h79, \h33, \h5B>> }

DotMasks == {\b00000000, \b00000001, \b10100000}

Intensities == {\h00, \h0F}

\* write_integer: a negative value and the first value too large to show
IntegerInputs == {-5, 100000000}

\* write_hex: 0x7fffffff, the largest eight-digit value that the 32-bit
\* integers of the model checker hold
HexInputs == {2147483647}

\* base_10_bytes is tried on -DecimalSpan..DecimalSpan and on the i32 values
\* around each power of ten, the two ends of the range shown and of i32
DecimalSpan == 100

DecimalInputs ==
    (-DecimalSpan..DecimalSpan)
    \cup { s * (10 ^ k) + d : s \in {-1, 1}, k \in 3..9, d \in {-1, 0, 1} }
    \cup { 12345678, -1234567, 2147483647, -2147483647, -2147483647 - 1 }

\* pad_left is tried on every slice of at most PadMaxLen bytes of PadBytes
PadMaxLen == 9

\* '1' and ' '
PadBytes == {49, 32}

PadInputs == UNION { [1..k -> PadBytes] : k \in 0..PadMaxLen }

(***************************************************************************)
(* 8-bit arithmetic.                                                       *)
(***************************************************************************)
RECURSIVE BitAnd(_, _)
BitAnd(a, b) ==
    IF a = 0 \/ b = 0 THEN 0
    ELSE (IF a % 2 = 1 /\ b % 2 = 1 THEN 1 ELSE 0) + 2 * BitAnd(a \div 2, b \div 2)

RECURSIVE BitOr(_, _)
BitOr(a, b) ==
    IF a = 0 THEN b
    ELSE IF b = 0 THEN a
    ELSE (IF a % 2 = 1 \/ b % 2 = 1 THEN 1 ELSE 0) + 2 * BitOr(a \div 2, b \div 2)

Shr1(a) == a \div 2

\* u8 subtraction with the wrap of a release build
SubU8(a, b) == (a - b + 256) % 256

(***************************************************************************)
(* The encoders.                                                           *)
(***************************************************************************)
bcd_byte(b) ==
    CASE b = 32  -> \b00001111   \* ' '
      [] b = 45  -> \b00001010   \* '-'
      [] b = 101 -> \b00001011   \* 'e'
      [] b = 69  -> \b10001011   \* 'E'
      [] b = 104 -> \b00001100   \* 'h'
      [] b = 72  -> \b10001100   \* 'H'
      [] b = 108 -> \b00001101   \* 'l'
      [] b = 76  -> \b10001101   \* 'L'
      [] b = 112 -> \b00001110   \* 'p'
      [] b = 80  -> \b10001110   \* 'P'
      [] OTHER   -> b

ssb_table(b) ==
    CASE b = 32 -> \b00000000                \* ' '
      [] b = 46 -> \b10000000                \* '.'
      [] b = 45 -> \b00000001                \* '-'
      [] b = 95 -> \b00001000                \* '_'
      [] b = 48 -> \b01111110                \* '0'
      [] b = 49 -> \b00110000                \* '1'
      [] b = 50 -> \b01101101                \* '2'
      [] b = 51 -> \b01111001                \* '3'
      [] b = 52 -> \b00110011                \* '4'
      [] b = 53 -> \b01011011                \* '5'
      [] b = 54 -> \b01011111                \* '6'
      [] b = 55 -> \b01110000                \* '7'
      [] b = 56 -> \b01111111                \* '8'
      [] b = 57 -> \b01111011                \* '9'
      [] b \in {97, 65}  -> \b01110111       \* 'a' | 'A'
      [] b = 98          -> \b00011111       \* 'b'
      [] b \in {99, 67}  -> \b01001110       \* 'c' | 'C'
      [] b = 100         -> \b00111101       \* 'd'
      [] b \in {101, 69} -> \b01001111       \* 'e' | 'E'
      [] b \in {102, 70} -> \b01000111       \* 'f' | 'F'
      [] b \in {103, 71} -> \b01011110       \* 'g' | 'G'
      [] b \in {104, 72} -> \b00110111       \* 'h' | 'H'
      [] b \in {105, 73} -> \b00110000       \* 'i' | 'I'
      [] b \in {106, 74} -> \b00111100       \* 'j' | 'J'
      [] b \in {108, 76} -> \b00001110       \* 'l' | 'L'
      [] b \in {110, 78} -> \b00010101       \* 'n' | 'N'
      [] b \in {111, 79} -> \b01111110       \* 'o' | 'O'
      [] b \in {112, 80} -> \b01100111       \* 'p' | 'P'
      [] b = 113         -> \b01110011       \* 'q'
      [] b \in {114, 82} -> \b00000101       \* 'r' | 'R'
      [] b \in {115, 83} -> \b01011011       \* 's' | 'S'
      [] b \in {117, 85} -> \b00111110       \* 'u' | 'U'
      [] OTHER           -> \b11100101       \* ?

\* ssb_byte that toggles the dot bit instead of setting it
ssb_byte_toggle(b, dot) ==
    LET result == ssb_table(b)
    IN  IF dot THEN (result + \b10000000) % 256 ELSE result

ssb_byte(b, dot) ==
    LET result == ssb_table(b)
    IN  IF dot THEN BitOr(result, \b10000000) ELSE result

(***************************************************************************)
(* The number formatter.  A slice is a sequence; buf[i] of the code is     *)
(* buf[i + 1] here.                                                        *)
(***************************************************************************)
\* slice.reverse()
Reverse(slice) == [k \in 1..Len(slice) |-> slice[Len(slice) + 1 - k]]

\* while n > 0 { buf[i] = (n % 10) as u8 + b'0'; n /= 10; i += 1; }
RECURSIVE base_10_loop(_, _, _)
base_10_loop(n, buf, i) ==
    IF n > 0
    THEN base_10_loop(n \div 10, [buf EXCEPT ![i + 1] = (n % 10) + 48], i + 1)
    ELSE [buf |-> buf, i |-> i]

\* base_10_bytes with the exclusive range -9999999..99999999
base_10_bytes_exclusive(n0, buf0) ==
    IF n0 = 0 THEN <<48>>
    ELSE IF ~(n0 \in -9999999..99999998) THEN <<69, 114, 114>>
    ELSE LET digits == base_10_loop(IF n0 < 0 THEN -n0 ELSE n0, buf0, 0)
             buf1   == IF n0 < 0 THEN [digits.buf EXCEPT ![digits.i + 1] = 45]
                                 ELSE digits.buf
             i1     == IF n0 < 0 THEN digits.i + 1 ELSE digits.i
         IN  Reverse(SubSeq(buf1, 1, i1))

base_10_bytes(n0, buf0) ==
    IF n0 = 0 THEN <<48>>                                         \* b"0"
    ELSE IF ~(n0 \in -9999999..99999999) THEN <<69, 114, 114>>    \* b"Err"
    ELSE LET sign   == n0 < 0
             n      == IF n0 < 0 THEN -n0 ELSE n0
             digits == base_10_loop(n, buf0, 0)
             buf1   == IF sign THEN [digits.buf EXCEPT ![digits.i + 1] = 45]  \* b'-'
                               ELSE digits.buf
             i1     == IF sign THEN digits.i + 1 ELSE digits.i
         IN  Reverse(SubSeq(buf1, 1, i1))

\* the match of hex_bytes: b'0'..b'9', b'a'..b'f'
hex_digit(digit) ==
    IF digit \in 0..9 THEN 48 + digit
    ELSE IF digit \in 10..15 THEN 97 + (digit - 10)
    ELSE 63                                                       \* b'?'

RECURSIVE hex_loop(_, _, _)
hex_loop(n, buf, i) ==
    IF n > 0
    THEN hex_loop(n \div 16, [buf EXCEPT ![i + 1] = hex_digit(n % 16)], i + 1)
    ELSE [buf |-> buf, i |-> i]

hex_bytes(n, buf) ==
    IF n = 0 THEN <<48>>
    ELSE LET digits == hex_loop(n, buf, 0)
         IN  Reverse(SubSeq(digits.buf, 1, digits.i))

\* what a failed assert! leaves instead of a value
Panic == "panic"

\* while cur <= pos { out[size - cur] = val[pos - cur]; cur += 1; }
RECURSIVE pad_left_loop(_, _, _, _, _)
pad_left_loop(val, size, pos, cur, out) ==
    IF cur <= pos
    THEN pad_left_loop(val, size, pos, cur + 1,
                       [out EXCEPT ![size - cur + 1] = val[pos - cur + 1]])
    ELSE out

\* pad_left that fills from the left end
pad_left_left_justified(val) ==
    IF ~(Len(val) <= 8) THEN Panic
    ELSE [k \in 1..8 |-> IF k <= Len(val) THEN val[k] ELSE 32]

pad_left(val) ==
    IF ~(Len(val) <= 8) THEN Panic
    ELSE pad_left_loop(val, 8, Len(val), 1, [k \in 1..8 |-> 32])

(***************************************************************************)
(* The bus and the register writes.                                        *)
(***************************************************************************)
\* self.spi.write(&[command, data]).await: the transfer is issued; the
\* transport fails the m.fail-th transfer of the call with m.err, and the chip
\* latches an accepted one.
spi_write(m, buf) ==
    LET issued == Append(m.log, buf)
        modes  == Append(m.seen, m.chip[DecodeMode])
    IN  IF Len(issued) = m.fail
        THEN [m EXCEPT !.log = issued, !.seen = modes, !.ret = m.err]
        ELSE [m EXCEPT !.log = issued,
                       !.seen = modes,
                       !.ret = Ok,
                       !.chip = IF buf[1] \in ControlRegisters
                                THEN [m.chip EXCEPT ![buf[1]] = buf[2]]
                                ELSE m.chip]

write_data(m, command, data) == spi_write(m, <<command, data>>)

power_on(m) == write_data(m, Power, \h01)

power_off(m) == write_data(m, Power, \h00)

\* clear_display without the `?`: the loop goes on after a failed write
RECURSIVE clear_display_loop_no_abort(_, _)
clear_display_loop_no_abort(m, i) ==
    IF i >= 9 THEN m
    ELSE clear_display_loop_no_abort(write_data(m, i, \h00), i + 1)

\* clear_display with the range 1..8: Digit7 is left out
RECURSIVE clear_display_loop_short(_, _)
clear_display_loop_short(m, i) ==
    IF i >= 8 THEN m
    ELSE LET m1 == write_data(m, i, \h00)
         IN  IF m1.ret # Ok THEN m1 ELSE clear_display_loop_short(m1, i + 1)

\* clear_display with the range 1..10: the DecodeMode register is zeroed too
RECURSIVE clear_display_loop_to_nine(_, _)
clear_display_loop_to_nine(m, i) ==
    IF i >= 10 THEN m
    ELSE LET m1 == write_data(m, i, \h00)
         IN  IF m1.ret # Ok THEN m1 ELSE clear_display_loop_to_nine(m1, i + 1)

\* clear_display with the range 0..8: the registers Noop..Digit6
RECURSIVE clear_display_loop_from_zero(_, _)
clear_display_loop_from_zero(m, i) ==
    IF i >= 9 THEN m
    ELSE LET m1 == write_data(m, i - 1, \h00)
         IN  IF m1.ret # Ok THEN m1 ELSE clear_display_loop_from_zero(m1, i + 1)

RECURSIVE clear_display_loop(_, _)
clear_display_loop(m, i) ==
    IF i >= 9 THEN m
    ELSE LET m1 == write_data(m, i, \h00)
         IN  IF m1.ret # Ok THEN m1 ELSE clear_display_loop(m1, i + 1)

clear_display(m) == clear_display_loop(m, 1)

set_intensity(m, intensity) == write_data(m, Intensity, intensity)

\* set_decode_mode that stores the mode only once the chip has accepted it
set_decode_mode_store_on_ok(m, mode) ==
    LET m1 == write_data(m, DecodeMode, mode)
    IN  IF m1.ret = Ok THEN [m1 EXCEPT !.decode_mode = mode] ELSE m1

set_decode_mode(m, mode) ==
    write_data([m EXCEPT !.decode_mode = mode], DecodeMode, mode)

set_test(m, is_on) == write_data(m, DisplayTest, IF is_on THEN \h01 ELSE \h00)

\* write_str with the digit counter running upwards from Digit0
RECURSIVE write_str_loop_ascending(_, _, _, _, _, _)
write_str_loop_ascending(m, string, dots, i, digit, dot_product) ==
    IF i > Len(string) THEN m
    ELSE LET dot == BitAnd(dots, dot_product) > 0
             m1  == write_data(m, MAX_DIGITS + 1 - digit, ssb_byte(string[i], dot))
         IN  IF m1.ret # Ok THEN m1
             ELSE write_str_loop_ascending(m1, string, dots, i + 1,
                                           SubU8(digit, 1), Shr1(dot_product))

\* write_str with the dot mask read from bit 0 upwards
RECURSIVE write_str_loop_lsb_first(_, _, _, _, _, _)
write_str_loop_lsb_first(m, string, dots, i, digit, dot_product) ==
    IF i > Len(string) THEN m
    ELSE LET dot == BitAnd(dots, \b10000000 \div dot_product) > 0
             m1  == write_data(m, digit, ssb_byte(string[i], dot))
         IN  IF m1.ret # Ok THEN m1
             ELSE write_str_loop_lsb_first(m1, string, dots, i + 1,
                                           SubU8(digit, 1), Shr1(dot_product))

RECURSIVE write_str_loop(_, _, _, _, _, _)
write_str_loop(m, string, dots, i, digit, dot_product) ==
    IF i > Len(string) THEN m
    ELSE LET dot == BitAnd(dots, dot_product) > 0
             m1  == write_data(m, digit, ssb_byte(string[i], dot))
         IN  IF m1.ret # Ok THEN m1
             ELSE write_str_loop(m1, string, dots, i + 1,
                                 SubU8(digit, 1), Shr1(dot_product))

\* write_str of the variant without the decode-mode bracket
write_str_no_override(m, string, dots) ==
    write_str_loop(m, string, dots, 1, MAX_DIGITS, \b10000000)

write_str(m, string, dots) ==
    LET prev_dm == m.decode_mode
        m1 == set_decode_mode(m, NoDecode)
    IN  IF m1.ret # Ok THEN m1
        ELSE LET m2 == write_str_loop(m1, string, dots, 1, MAX_DIGITS, \b10000000)
             IN  IF m2.ret # Ok THEN m2
                 ELSE set_decode_mode(m2, prev_dm)

\* let mut buf = [0u8; 8]
ZeroBuf == [k \in 1..8 |-> 0]

\* write_integer that formats the value as write_hex does
write_integer_as_hex(m, value) ==
    write_str(m, pad_left(hex_bytes(value, ZeroBuf)), \b00000000)

write_integer(m, value) ==
    LET j   == base_10_bytes(value, ZeroBuf)
        buf == pad_left(j)
    IN  write_str(m, buf, \b00000000)

write_hex(m, value) ==
    LET j   == hex_bytes(value, ZeroBuf)
        buf == pad_left(j)
    IN  write_str(m, buf, \b00000000)

RECURSIVE write_bcd_loop(_, _, _, _)
write_bcd_loop(m, bcd, i, digit) ==
    IF i > Len(bcd) THEN m
    ELSE LET m1 == write_data(m, digit, bcd_byte(bcd[i]))
         IN  IF m1.ret # Ok THEN m1
             ELSE write_bcd_loop(m1, bcd, i + 1, SubU8(digit, 1))

\* write_bcd that forces NoDecode, as write_str does
write_bcd_no_decode(m, bcd) ==
    LET prev_dm == m.decode_mode
        m1 == set_decode_mode(m, NoDecode)
    IN  IF m1.ret # Ok THEN m1
        ELSE LET m2 == write_bcd_loop(m1, bcd, 1, MAX_DIGITS)
             IN  IF m2.ret # Ok THEN m2
                 ELSE set_decode_mode(m2, prev_dm)

write_bcd(m, bcd) ==
    LET prev_dm == m.decode_mode
        m1 == set_decode_mode(m, CodeBDigits7_0)
    IN  IF m1.ret # Ok THEN m1
        ELSE LET m2 == write_bcd_loop(m1, bcd, 1, MAX_DIGITS)
             IN  IF m2.ret # Ok THEN m2
                 ELSE set_decode_mode(m2, prev_dm)

\* write_raw with the reversed mapping of write_str
RECURSIVE write_raw_loop_reversed(_, _, _)
write_raw_loop_reversed(m, raw, n) ==
    IF n >= Len(raw) THEN m
    ELSE LET m1 == write_data(m, MAX_DIGITS - n, raw[n + 1])
         IN  IF m1.ret # Ok THEN m1
             ELSE write_raw_loop_reversed(m1, raw, n + 1)

\* raw.iter().enumerate(): n counts from 0, raw[n] is the TLA+ raw[n + 1]
RECURSIVE write_raw_loop(_, _, _)
write_raw_loop(m, raw, n) ==
    IF n >= Len(raw) THEN m
    ELSE LET m1 == write_data(m, n + 1, raw[n + 1])
         IN  IF m1.ret # Ok THEN m1
             ELSE write_raw_loop(m1, raw, n + 1)

\* write_raw that leaves the chip in NoDecode
write_raw_no_restore(m, raw) ==
    LET m1 == set_decode_mode(m, NoDecode)
    IN  IF m1.ret # Ok THEN m1
        ELSE write_raw_loop(m1, raw, 0)

write_raw(m, raw) ==
    LET prev_dm == m.decode_mode
        m1 == set_decode_mode(m, NoDecode)
    IN  IF m1.ret # Ok THEN m1
        ELSE LET m2 == write_raw_loop(m1, raw, 0)
             IN  IF m2.ret # Ok THEN m2
                 ELSE set_decode_mode(m2, prev_dm)

\* init that clears the display before it sets the decode mode
init_clear_first(m) ==
    LET m1 == set_test(m, FALSE)
    IN  IF m1.ret # Ok THEN m1 ELSE
    LET m2 == write_data(m1, ScanLimit, \h07)
    IN  IF m2.ret # Ok THEN m2 ELSE
    LET m3 == clear_display(m2)
    IN  IF m3.ret # Ok THEN m3 ELSE
    LET m4 == set_decode_mode(m3, NoDecode)
    IN  IF m4.ret # Ok THEN m4 ELSE
    power_off(m4)

\* init that powers the chip on at the end
init_power_on(m) ==
    LET m1 == set_test(m, FALSE)
    IN  IF m1.ret # Ok THEN m1 ELSE
    LET m2 == write_data(m1, ScanLimit, \h07)
    IN  IF m2.ret # Ok THEN m2 ELSE
    LET m3 == set_decode_mode(m2, NoDecode)
    IN  IF m3.ret # Ok THEN m3 ELSE
    LET m4 == clear_display(m3)
    IN  IF m4.ret # Ok THEN m4 ELSE
    LET m5 == power_off(m4)
    IN  IF m5.ret # Ok THEN m5 ELSE
    power_on(m5)

init(m) ==
    LET m1 == set_test(m, FALSE)
    IN  IF m1.ret # Ok THEN m1 ELSE
    LET m2 == write_data(m1, ScanLimit, \h07)
    IN  IF m2.ret # Ok THEN m2 ELSE
    LET m3 == set_decode_mode(m2, NoDecode)
    IN  IF m3.ret # Ok THEN m3 ELSE
    LET m4 == clear_display(m3)
    IN  IF m4.ret # Ok THEN m4 ELSE
    power_off(m4)

\* new() of the variant that leaves init() to the caller
new_without_init(spi) == [spi EXCEPT !.decode_mode = NoDecode]

\* new(): the struct literal, then init(); the struct is returned only on Ok
new(spi) == init([spi EXCEPT !.decode_mode = NoDecode])

(***************************************************************************)
(* The state machine: one action per public operation of the controller.   *)
(***************************************************************************)
\* What the bus does during one call: nothing, or it fails the at-th transfer
\* of the call with the error err.
NoFault == [at |-> 0, err |-> Ok]

Faults == {NoFault} \cup [at : 1..BusFailMax, err : Errors]

\* The controller at the start of a call, on a bus that behaves as fault says.
Self(fault) ==
    [decode_mode |-> decode_mode, chip |-> chip, log |-> <<>>, seen |-> <<>>,
     fail |-> fault.at, err |-> fault.err, ret |-> Ok]

\* The fault is one the call met: a transfer the call never issues cannot fail.
Met(fault, m) == fault.at <= Len(m.log)

\* The call returns: the fields of the controller, the chip and the record
\* of the call take the values the method left.
Return(op, args, fault, m) ==
    /\ Met(fault, m)
    /\ decode_mode' = m.decode_mode
    /\ chip' = m.chip
    /\ log' = m.log
    /\ seen' = m.seen
    /\ ret' = m.ret
    /\ call' = [op |-> op, args |-> args, prev_dm |-> decode_mode,
                prev_chip |-> chip, fault |-> fault]

None == <<>>

Init ==
    /\ constructed = FALSE
    /\ decode_mode = NoDecode
    /\ chip = [r \in ControlRegisters |-> \h00]
    /\ call = [op |-> "none", args |-> None, prev_dm |-> NoDecode,
               prev_chip |-> [r \in ControlRegisters |-> \h00],
               fault |-> NoFault]
    /\ log = <<>>
    /\ seen = <<>>
    /\ ret = Ok

New ==
    /\ ~constructed
    /\ \E fault \in Faults :
        LET m == new(Self(fault))
        IN  /\ constructed' = (m.ret = Ok)
            /\ Return("new", None, fault, m)

PowerOn ==
    /\ constructed
    /\ \E fault \in Faults :
        Return("power_on", None, fault, power_on(Self(fault)))
    /\ UNCHANGED constructed

PowerOff ==
    /\ constructed
    /\ \E fault \in Faults :
        Return("power_off", None, fault, power_off(Self(fault)))
    /\ UNCHANGED constructed

ClearDisplay ==
    /\ constructed
    /\ \E fault \in Faults :
        Return("clear_display", None, fault, clear_display(Self(fault)))
    /\ UNCHANGED constructed

SetIntensity ==
    /\ constructed
    /\ \E intensity \in Intensities, fault \in Faults :
        Return("set_intensity", [intensity |-> intensity], fault,
               set_intensity(Self(fault), intensity))
    /\ UNCHANGED constructed

SetDecodeMode ==
    /\ constructed
    /\ \E mode \in DecodeModes, fault \in Faults :
        Return("set_decode_mode", [mode |-> mode], fault,
               set_decode_mode(Self(fault), mode))
    /\ UNCHANGED constructed

SetTest ==
    /\ constructed
    /\ \E is_on \in BOOLEAN, fault \in Faults :
        Return("set_test", [is_on |-> is_on], fault, set_test(Self(fault), is_on))
    /\ UNCHANGED constructed

WriteStr ==
    /\ constructed
    /\ \E string \in Strings, dots \in DotMasks, fault \in Faults :
        Return("write_str", [string |-> string, dots |-> dots], fault,
               write_str(Self(fault), string, dots))
    /\ UNCHANGED constructed

WriteBcd ==
    /\ constructed
    /\ \E bcd \in Strings, fault \in Faults :
        Return("write_bcd", [bcd |-> bcd], fault, write_bcd(Self(fault), bcd))
    /\ UNCHANGED constructed

WriteRaw ==
    /\ constructed
    /\ \E raw \in Raws, fault \in Faults :
        Return("write_raw", [raw |-> raw], fault, write_raw(Self(fault), raw))
    /\ UNCHANGED constructed

WriteInteger ==
    /\ constructed
    /\ \E value \in IntegerInputs, fault \in Faults :
        Return("write_integer", [value |-> value], fault,
               write_integer(Self(fault), value))
    /\ UNCHANGED constructed

WriteHex ==
    /\ constructed
    /\ \E value \in HexInputs, fault \in Faults :
        Return("write_hex", [value |-> value], fault, write_hex(Self(fault), value))
    /\ UNCHANGED constructed

Next ==
    \/ New
    \/ PowerOn
    \/ PowerOff
    \/ ClearDisplay
    \/ SetIntensity
    \/ SetDecodeMode
    \/ SetTest
    \/ WriteStr
    \/ WriteBcd
    \/ WriteRaw
    \/ WriteInteger
    \/ WriteHex

Spec == Init /\ [][Next]_vars

(***************************************************************************)
(* The encoders and the formatter on their own: each action applies one    *)
(* function to one input, once, and leaves the value in ret.               *)
(***************************************************************************)
Applied(fn, args, value) ==
    /\ call.op = "none"
    /\ call' = [op |-> fn, args |-> args, prev_dm |-> decode_mode,
                prev_chip |-> chip, fault |-> NoFault]
    /\ ret' = value
    /\ UNCHANGED <<constructed, decode_mode, chip, log, seen>>

SsbByte ==
    \E b \in 0..255, dot \in BOOLEAN :
        Applied("ssb_byte", [b |-> b, dot |-> dot], ssb_byte(b, dot))

Base10Bytes ==
    \E n \in DecimalInputs :
        Applied("base_10_bytes", [n |-> n], base_10_bytes(n, ZeroBuf))

PadLeft ==
    \E val \in PadInputs :
        Applied("pad_left", [val |-> val], pad_left(val))

NextFn ==
    \/ SsbByte
    \/ Base10Bytes
    \/ PadLeft

SpecFn == Init /\ [][NextFn]_vars

TypeOK ==
    /\ constructed \in BOOLEAN
    /\ decode_mode \in DecodeModes
    /\ chip \in [ControlRegisters -> 0..255]
    /\ ret \in {Ok} \cup Errors
    /\ \A k \in 1..Len(log) : log[k] \in (0..255) \X (0..255)
    /\ Len(seen) = Len(log)
    /\ \A k \in 1..Len(seen) : seen[k] \in DecodeModes

(***************************************************************************)
(* Properties.                                                             *)
(***************************************************************************)
\* bit k of the byte x
Bit(x, k) == (x \div (2 ^ k)) % 2

IsDigitWrite(w) == w[1] \in Digit0..Digit7

\* the writes of a call that address a digit register, in the order issued
DigitWrites(l) == SelectSeq(l, IsDigitWrite)

BracketedOps == {"write_raw", "write_str", "write_bcd"}

MultiWriteOps == BracketedOps \cup {"clear_display", "new"}

\* C1: in the stateful controller the cached decode mode always equals the
\* mode most recently written to (accepted by) the chip's DecodeMode register.
C1_CacheEqualsChip ==
    constructed => decode_mode = chip[DecodeMode]

\* C2: a successful write_str issues exactly eight digit-register writes,
\* addressed Digit7, Digit6, ..., Digit0 in that order, the write to
\* Digit(7-i) carrying the segment pattern of bytes[i].
C2_WriteStrOrder ==
    (call.op = "write_str" /\ ret = Ok) =>
        LET d == DigitWrites(log)
        IN  /\ Len(d) = 8
            /\ \A i \in 0..7 :
                /\ d[i + 1][1] = Digit7 - i
                /\ d[i + 1][2] \in { ssb_byte(call.args.string[i + 1], FALSE),
                                     ssb_byte(call.args.string[i + 1], TRUE) }

\* write_str(b"12345678", 0) has returned Ok
C2_Witness ==
    /\ call.op = "write_str"
    /\ ret = Ok
    /\ call.args = [string |-> <<49, 50, 51, 52, 53, 54, 55, 56>>, dots |-> 0]
    /\ DigitWrites(log)[1] = <<Digit7, \b00110000>>

\* C3 as claimed: the byte write_str writes for bytes[i] has its dot argument
\* taken from bit i of dots.
C3_DotFromBitI ==
    call.op = "write_str" =>
        \A i \in 0..7 :
            i + 1 <= Len(DigitWrites(log)) =>
                DigitWrites(log)[i + 1][2] =
                    ssb_byte(call.args.string[i + 1], Bit(call.args.dots, i) = 1)

\* C3 amended: the byte write_str writes for bytes[i] (the write to Digit(7-i))
\* has its dot argument taken from bit 7-i of dots: the mask is read from the
\* most significant bit down, bit 7 for input index 0.
C3_DotFromBit7MinusI ==
    call.op = "write_str" =>
        \A i \in 0..7 :
            i + 1 <= Len(DigitWrites(log)) =>
                DigitWrites(log)[i + 1] =
                    << Digit7 - i,
                       ssb_byte(call.args.string[i + 1], Bit(call.args.dots, 7 - i) = 1) >>

\* write_str(b"12345678", 0b1010_0000) has returned Ok with the dot on
\* bytes[0] and bytes[2] and on no other byte
C3_Witness ==
    /\ call.op = "write_str"
    /\ ret = Ok
    /\ call.args = [string |-> <<49, 50, 51, 52, 53, 54, 55, 56>>, dots |-> \b10100000]
    /\ \A i \in 0..7 : (DigitWrites(log)[i + 1][2] >= 128) <=> (i \in {0, 2})

\* C4: a successful write_raw issues exactly eight digit-register writes, to
\* Digit0, Digit1, ..., Digit7 in ascending order, the write to Digit(i)
\* carrying bytes[i] unmodified.
C4_WriteRawOrder ==
    (call.op = "write_raw" /\ ret = Ok) =>
        LET d == DigitWrites(log)
        IN  /\ Len(d) = 8
            /\ \A i \in 0..7 : d[i + 1] = <<Digit0 + i, call.args.raw[i + 1]>>

\* write_raw has returned Ok with bytes[0] = 0x01 on Digit0
C4_Witness ==
    /\ call.op = "write_raw"
    /\ ret = Ok
    /\ call.args.raw[1] = \h01
    /\ DigitWrites(log)[1] = <<Digit0, \h01>>
    /\ DigitWrites(log)[8] = <<Digit7, \h80>>

\* C5: a successful write_bcd first writes DecodeMode = CodeBDigits7_0, then
\* bcd_byte(bytes[i]) to Digit(7-i) for i = 0..7 in that order, then
\* DecodeMode = the mode that was cached before the call.
C5_WriteBcdSequence ==
    (call.op = "write_bcd" /\ ret = Ok) =>
        log = <<<<DecodeMode, \hFF>>>>
              \o [i \in 1..8 |-> <<Digit7 - (i - 1), bcd_byte(call.args.bcd[i])>>]
              \o <<<<DecodeMode, call.prev_dm>>>>

\* write_bcd(b" -EhLp.K") has returned Ok with CodeBDigit0 cached before it
C5_Witness ==
    /\ call.op = "write_bcd"
    /\ ret = Ok
    /\ call.prev_dm = CodeBDigit0
    /\ call.args.bcd = <<32, 45, 69, 104, 76, 112, 46, 75>>
    /\ log[2] = <<Digit7, \b00001111>>
    /\ log[4] = <<\h06, \b10001011>>

\* the writes of init() as the claims give them
InitWrites ==
    << <<\h0F, \h00>>, <<\h0B, \h07>>, <<\h09, \h00>>,
       <<\h01, \h00>>, <<\h02, \h00>>, <<\h03, \h00>>, <<\h04, \h00>>,
       <<\h05, \h00>>, <<\h06, \h00>>, <<\h07, \h00>>, <<\h08, \h00>>,
       <<\h0C, \h00>> >>

\* C6: with no bus failure, init() (run by new) begins with test off, scan
\* limit 7, decode mode NoDecode, eight zero writes to the digit registers
\* 0x01..0x08, then power off, in that order.
C6_InitSequence ==
    (call.op = "new" /\ ret = Ok) =>
        /\ Len(log) >= 12
        /\ SubSeq(log, 1, 12) = InitWrites

\* new() has returned the controller
C6_Witness ==
    /\ constructed
    /\ call.op = "new"
    /\ ret = Ok
    /\ log[1] = <<DisplayTest, \h00>>

\* C7 as claimed: the last write of a successful init is power-on.
C7_InitEndsPowerOn ==
    (call.op = "new" /\ ret = Ok) => log[Len(log)] = <<Power, \h01>>

\* C7 amended: init() issues no power-on write: the power-off write is the
\* last write of a successful init, and the chip is left powered off.
C7_InitEndsPowerOff ==
    (call.op = "new" /\ ret = Ok) =>
        /\ Len(log) = 12
        /\ log[Len(log)] = <<Power, \h00>>
        /\ \A k \in 1..Len(log) : log[k] # <<Power, \h01>>
        /\ chip[Power] = \h00

\* new() has returned the controller and the chip is powered off
C7_Witness ==
    /\ constructed
    /\ call.op = "new"
    /\ ret = Ok
    /\ log[12] = <<Power, \h00>>
    /\ chip[Power] = \h00

\* the writes a call of a multi-write operation issues when no write fails
FullWrites ==
    CASE call.op = "write_str" ->
            <<<<DecodeMode, NoDecode>>>>
            \o [i \in 1..8 |->
                  << Digit7 - (i - 1),
                     ssb_byte(call.args.string[i], Bit(call.args.dots, 8 - i) = 1) >>]
            \o <<<<DecodeMode, call.prev_dm>>>>
      [] call.op = "write_bcd" ->
            <<<<DecodeMode, CodeBDigits7_0>>>>
            \o [i \in 1..8 |-> <<Digit7 - (i - 1), bcd_byte(call.args.bcd[i])>>]
            \o <<<<DecodeMode, call.prev_dm>>>>
      [] call.op = "write_raw" ->
            <<<<DecodeMode, NoDecode>>>>
            \o [i \in 1..8 |-> <<Digit0 + (i - 1), call.args.raw[i]>>]
            \o <<<<DecodeMode, call.prev_dm>>>>
      [] call.op = "clear_display" -> [i \in 1..8 |-> <<Digit0 + (i - 1), \h00>>]
      [] call.op = "new" -> InitWrites
      [] OTHER -> <<>>

\* C8: in every multi-write operation, if the k-th bus write of the call
\* fails then no later write of the call is issued, the writes already issued
\* are the first k of the call, each issued once, and the call returns the
\* error of the bus unchanged.
C8_AbortAtFirstFailure ==
    (call.op \in MultiWriteOps /\ call.fault.at > 0) =>
        /\ Len(log) = call.fault.at
        /\ log = SubSeq(FullWrites, 1, call.fault.at)
        /\ ret = call.fault.err
        /\ (call.op = "new" => ~constructed)

\* the fourth write of a write_str call (the digit step 3) has failed
C8_Witness ==
    /\ call.op = "write_str"
    /\ call.fault = [at |-> 4, err |-> "BusErrB"]
    /\ ret = "BusErrB"
    /\ Len(log) = 4

\* C9: when the override DecodeMode write of write_raw, write_str or
\* write_bcd has been issued and a later digit write of the call fails, a
\* DecodeMode write carrying the saved prior mode is still issued before the
\* call returns.
C9_RestoreAfterFailure ==
    (call.op \in BracketedOps /\ call.fault.at \in 2..9) =>
        \E j \in (call.fault.at + 1)..Len(log) : log[j] = <<DecodeMode, call.prev_dm>>

\* C10: a successful write_raw, write_str or write_bcd leaves the decode
\* mode unchanged: with the mode m cached before the call, after the call the
\* cached mode and the chip's DecodeMode register equal m, and the last write
\* of the call is [0x09, m].
C10_DecodeModeRestored ==
    (call.op \in BracketedOps /\ ret = Ok) =>
        /\ decode_mode = call.prev_dm
        /\ chip[DecodeMode] = call.prev_dm
        /\ log[Len(log)] = <<DecodeMode, call.prev_dm>>

\* write_raw has returned Ok with CodeBDigits3_0 in effect before the call
C10_Witness ==
    /\ call.op = "write_raw"
    /\ ret = Ok
    /\ call.prev_dm = CodeBDigits3_0
    /\ call.prev_chip[DecodeMode] = CodeBDigits3_0
    /\ decode_mode = CodeBDigits3_0
    /\ chip[DecodeMode] = CodeBDigits3_0

\* the controller and the chip as they were when the last call began, on a
\* bus that does not fail
CallStart ==
    [decode_mode |-> call.prev_dm, chip |-> call.prev_chip, log |-> <<>>,
     seen |-> <<>>, fail |-> 0, err |-> Ok, ret |-> Ok]

\* the writes l leave every digit register at zero
DigitsZero(l) ==
    \A r \in Digit0..Digit7 :
        \E k \in 1..Len(l) :
            /\ l[k] = <<r, \h00>>
            /\ \A j \in (k + 1)..Len(l) : l[j][1] # r

\* C11 as claimed: clear_display() is equivalent to write_raw([0;8]): from
\* the same state both issue the same bus writes and leave the same chip
\* registers and cached mode, with every digit register zero.
C11_ClearEqualsWriteRaw ==
    (call.op = "clear_display" /\ ret = Ok) =>
        LET w == write_raw(CallStart, ZeroBuf)
        IN  /\ log = w.log
            /\ chip = w.chip
            /\ decode_mode = w.decode_mode
            /\ DigitsZero(log)

\* C11 amended: clear_display() issues exactly the eight digit writes of
\* write_raw([0;8]), in the same order, without the two DecodeMode writes
\* that bracket them in write_raw; from the same state both leave every digit
\* register zero and the cached mode unchanged; clear_display leaves the
\* chip's DecodeMode register untouched, write_raw leaves it at the cached mode.
C11_ClearIsDigitWritesOfWriteRaw ==
    (call.op = "clear_display" /\ ret = Ok) =>
        LET w == write_raw(CallStart, ZeroBuf)
        IN  /\ Len(log) = 8
            /\ log = DigitWrites(w.log)
            /\ w.log = <<<<DecodeMode, NoDecode>>>> \o log
                       \o <<<<DecodeMode, call.prev_dm>>>>
            /\ DigitsZero(log)
            /\ DigitsZero(w.log)
            /\ decode_mode = call.prev_dm
            /\ w.decode_mode = call.prev_dm
            /\ chip = call.prev_chip
            /\ w.chip = [call.prev_chip EXCEPT ![DecodeMode] = call.prev_dm]

\* clear_display has returned Ok with CodeBDigits7_0 cached and on the chip
C11_Witness ==
    /\ call.op = "clear_display"
    /\ ret = Ok
    /\ call.prev_dm = CodeBDigits7_0
    /\ chip[DecodeMode] = CodeBDigits7_0
    /\ log[8] = <<Digit7, \h00>>

SegmentOps == {"write_str", "write_raw", "write_integer", "write_hex"}

\* C12: at the moment of every digit-register write issued by write_str or
\* write_raw (also through write_integer and write_hex) the chip's DecodeMode
\* register holds NoDecode, and at every digit-register write issued by
\* write_bcd it holds CodeBDigits7_0, whatever mode was set before the call.
C12_ModeSetBeforeContent ==
    \A k \in 1..Len(log) :
        IsDigitWrite(log[k]) =>
            /\ call.op \in SegmentOps => seen[k] = NoDecode
            /\ call.op = "write_bcd" => seen[k] = CodeBDigits7_0

\* write_bcd has issued a digit write with CodeBDigit0 on the chip before the
\* call, and write_str one with CodeBDigits7_0 before the call
C12_Witness ==
    \/ /\ call.op = "write_bcd"
       /\ call.prev_chip[DecodeMode] = CodeBDigit0
       /\ Len(log) >= 2
       /\ IsDigitWrite(log[2])
       /\ seen[1] = CodeBDigit0
       /\ seen[2] = CodeBDigits7_0
    \/ /\ call.op = "write_str"
       /\ call.prev_chip[DecodeMode] = CodeBDigits7_0
       /\ Len(log) >= 2
       /\ IsDigitWrite(log[2])
       /\ seen[1] = CodeBDigits7_0
       /\ seen[2] = NoDecode

SingleRegisterOps ==
    {"power_on", "power_off", "set_intensity", "set_test", "clear_display"}

SetDecodeModeOps ==
    {"set_decode_mode", "write_raw", "write_str", "write_bcd", "write_integer",
     "write_hex", "new"}

\* C13: the decode mode changes only through set_decode_mode: power_on,
\* power_off, set_intensity, set_test and clear_display leave the cached mode
\* and issue no write to the DecodeMode register; a DecodeMode write is one of
\* set_decode_mode, called directly or inside write_raw, write_str (also
\* through write_integer and write_hex), write_bcd or init; the cached mode
\* changes only to a mode the call wrote; right after construction it is
\* NoDecode.
C13_OnlySetDecodeMode ==
    /\ call.op \in SingleRegisterOps =>
        /\ decode_mode = call.prev_dm
        /\ chip[DecodeMode] = call.prev_chip[DecodeMode]
        /\ \A k \in 1..Len(log) : log[k][1] # DecodeMode
    /\ (\E k \in 1..Len(log) : log[k][1] = DecodeMode) => call.op \in SetDecodeModeOps
    /\ (call.op # "none" /\ decode_mode # call.prev_dm) =>
        \E k \in 1..Len(log) : log[k] = <<DecodeMode, decode_mode>>
    /\ (call.op = "new" /\ ret = Ok) => decode_mode = NoDecode

\* set_intensity and clear_display have returned Ok with CodeBDigits3_0 cached
C13_Witness ==
    /\ call.op \in {"set_intensity", "clear_display"}
    /\ ret = Ok
    /\ call.prev_dm = CodeBDigits3_0
    /\ decode_mode = CodeBDigits3_0
    /\ Len(log) >= 1

\* the bytes the match of ssb_byte has an arm for
SsbArms ==
    {32, 46, 45, 95} \cup (48..57)
    \cup {97, 65, 98, 99, 67, 100, 101, 69, 102, 70, 103, 71, 104, 72, 105, 73,
          106, 74, 108, 76, 110, 78, 111, 79, 112, 80, 113, 114, 82, 115, 83,
          117, 85}

\* C14 as claimed: for every byte c and both values of dot, bit 7 of
\* ssb_byte(c, dot) is set if and only if dot is true.
C14_Bit7IffDot ==
    call.op = "ssb_byte" => ((Bit(ret, 7) = 1) <=> call.args.dot)

\* C14 amended: bit 7 of ssb_byte(c, dot) is set whenever dot is true; with
\* dot false it is set exactly for '.' (pattern 0x80) and for the bytes
\* without an arm, which get the fallback glyph 0b1110_0101.
C14_Bit7IffDotOrGlyph ==
    call.op = "ssb_byte" =>
        /\ ret \in 0..255
        /\ (Bit(ret, 7) = 1) <=>
               (call.args.dot \/ call.args.b = 46 \/ call.args.b \notin SsbArms)
        /\ call.args.b \notin SsbArms => ret = \b11100101

\* ssb_byte(b'.', false) = 0x80 and ssb_byte(b'K', false) = 0xE5 were computed
C14_Witness ==
    /\ call.op = "ssb_byte"
    /\ ~call.args.dot
    /\ \/ call.args.b = 46 /\ ret = \h80
       \/ call.args.b = 75 /\ ret = \hE5

\* the minimal base-10 digits of v > 0, most significant first
RECURSIVE DecimalDigits(_)
DecimalDigits(v) ==
    IF v < 10 THEN <<48 + v>> ELSE Append(DecimalDigits(v \div 10), 48 + (v % 10))

\* C15: base_10_bytes(n) is "0" for n = 0, "Err" exactly when n is nonzero
\* and outside [-9,999,999, 99,999,999], otherwise the minimal base-10 digits,
\* most significant first, with a leading '-' for negatives; it is never
\* longer than 8 bytes.
C15_FormatDecimal ==
    call.op = "base_10_bytes" =>
        LET n == call.args.n
        IN  /\ n = 0 => ret = <<48>>
            /\ (ret = <<69, 114, 114>>) <=> (n # 0 /\ (n < -9999999 \/ n > 99999999))
            /\ (n > 0 /\ n <= 99999999) => ret = DecimalDigits(n)
            /\ (n < 0 /\ n >= -9999999) => ret = <<45>> \o DecimalDigits(-n)
            /\ Len(ret) <= 8

\* base_10_bytes(-9999999) = "-9999999" was computed
C15_Witness ==
    /\ call.op = "base_10_bytes"
    /\ call.args.n = -9999999
    /\ ret = <<45, 57, 57, 57, 57, 57, 57, 57>>

\* C18: pad_left(s) for an input of length k <= 8 returns exactly 8 bytes
\* whose first 8-k bytes are ASCII space and whose last k bytes equal s in
\* order; an input longer than 8 bytes fails the assertion.
C18_PadLeft ==
    call.op = "pad_left" =>
        LET s == call.args.val
            k == Len(s)
        IN  /\ k > 8 => ret = Panic
            /\ k <= 8 =>
                /\ DOMAIN ret = 1..8
                /\ \A j \in 1..(8 - k) : ret[j] = 32
                /\ \A j \in 1..k : ret[8 - k + j] = s[j]

\* pad_left(b"1 1") = b"     1 1" was computed
C18_Witness ==
    /\ call.op = "pad_left"
    /\ call.args.val = <<49, 32, 49>>
    /\ ret = <<32, 32, 32, 32, 32, 49, 32, 49>>

\* the last call began as CallStart, on the bus that met the call's fault
CallStartFaulty ==
    [CallStart EXCEPT !.fail = call.fault.at, !.err = call.fault.err]

\* "     Err"
ErrText == <<32, 32, 32, 32, 32, 69, 114, 114>>

\* C16: write_integer(v) and write_hex(u) issue exactly the bus writes of
\* write_str(pad_left(base_10_bytes(v)), 0) and write_str(pad_left(hex_bytes(u)), 0);
\* an out-of-range integer does not fail the call but is shown as the
\* right-justified text "     Err"; the call fails only if a bus write fails.
C16_WriteNumber ==
    /\ call.op = "write_integer" =>
        LET w == write_str(CallStartFaulty,
                           pad_left(base_10_bytes(call.args.value, ZeroBuf)), 0)
            d == DigitWrites(log)
        IN  /\ log = w.log
            /\ ret = w.ret
            /\ decode_mode = w.decode_mode
            /\ chip = w.chip
            /\ (ret # Ok) <=> (call.fault.at > 0)
            /\ (call.args.value > 99999999 \/ call.args.value < -9999999) =>
                /\ \A k \in 1..Len(d) : d[k] = <<Digit7 - (k - 1), ssb_byte(ErrText[k], FALSE)>>
                /\ call.fault = NoFault => Len(d) = 8
    /\ call.op = "write_hex" =>
        LET w == write_str(CallStartFaulty,
                           pad_left(hex_bytes(call.args.value, ZeroBuf)), 0)
        IN  /\ log = w.log
            /\ ret = w.ret
            /\ decode_mode = w.decode_mode
            /\ chip = w.chip
            /\ (ret # Ok) <=> (call.fault.at > 0)

\* write_integer(100_000_000) has returned Ok with "Err" on Digit2..Digit0
C16_Witness ==
    /\ call.op = "write_integer"
    /\ call.args.value = 100000000
    /\ ret = Ok
    /\ SubSeq(log, 6, 9) = << <<\h04, \h00>>, <<\h03, \b01001111>>,
                              <<\h02, \b00000101>>, <<\h01, \b00000101>> >>

\* C17 as claimed: constructing the controller does not run init: new()
\* issues no bus write.
C17_NewIssuesNoWrite ==
    call.op = "new" => log = <<>>

\* C17 amended: constructing the controller runs init: new() issues the
\* initialization sequence itself (all twelve writes when it returns the
\* controller, the first k of them when the k-th fails and no controller is
\* returned), so no operation precedes it; no power-on is issued at the
\* end of init.
C17_NewRunsInit ==
    /\ call.op = "new" =>
        /\ Len(log) >= 1
        /\ log = SubSeq(InitWrites, 1, Len(log))
        /\ constructed <=> (Len(log) = 12 /\ ret = Ok)
        /\ <<Power, \h01>> \notin {log[k] : k \in 1..Len(log)}
    /\ call.op \notin {"none", "new"} => constructed

\* new() has returned the controller after the twelve writes of init
C17_Witness ==
    /\ call.op = "new"
    /\ constructed
    /\ Len(log) = 12
    /\ log[2] = <<ScanLimit, \h07>>
    /\ log[11] = <<Digit7, \h00>>

DigitOps == SegmentOps \cup {"write_bcd", "clear_display"}

\* C19: every bus transfer is two bytes [address, data] whose address is a
\* defined register other than No-op (0x01..0x0C or 0x0F); write_str,
\* write_bcd, write_raw and clear_display address only 0x01..0x08 besides
\* the DecodeMode register, no digit register twice, and each exactly once
\* in a successful call.
C19_WellFormedTransfers ==
    /\ \A k \in 1..Len(log) :
        /\ Len(log[k]) = 2
        /\ log[k][1] \in (\h01..\h0C) \cup {\h0F}
        /\ log[k][2] \in 0..255
    /\ call.op \in DigitOps =>
        /\ \A k \in 1..Len(log) : log[k][1] \in (Digit0..Digit7) \cup {DecodeMode}
        /\ \A j, k \in 1..Len(log) :
            (j # k /\ IsDigitWrite(log[j])) => log[j][1] # log[k][1]
        /\ ret = Ok =>
            \A r \in Digit0..Digit7 :
                Cardinality({k \in 1..Len(log) : log[k][1] = r}) = 1

\* write_bcd and clear_display have returned Ok after writing Digit7..Digit0
C19_Witness ==
    /\ call.op \in {"write_bcd", "clear_display"}
    /\ ret = Ok
    /\ Len(DigitWrites(log)) = 8
    /\ {log[k][1] : k \in 1..Len(log)} \cap (Digit0..Digit7) = Digit0..Digit7

\* the last call is a write_str, write_raw or write_bcd that returned the
\* error of its override write or of one of its digit writes
FailedInBracket ==
    /\ call.op \in SegmentOps \cup {"write_bcd"}
    /\ call.fault.at \in 1..9

\* the mode that call forces
OverrideMode == IF call.op = "write_bcd" THEN CodeBDigits7_0 ELSE NoDecode

C20_CacheLeftAtOverride ==
    FailedInBracket => decode_mode = OverrideMode

C20_NextRestoresOverride ==
    (FailedInBracket /\ call'.op \in SegmentOps \cup {"write_bcd"} /\ ret' = Ok) =>
        /\ call'.prev_dm = OverrideMode
        /\ log'[Len(log')] = <<DecodeMode, OverrideMode>>
        /\ chip'[DecodeMode] = OverrideMode
        /\ decode_mode' = OverrideMode

====
